---- MODULE Spec2Model ----
(***************************************************************************)
(* Texture descriptors of skimage/feature/_texture.py:                     *)
(*   greycomatrix  - grey-level co-occurrence matrix (GLCM) build,         *)
(*                   symmetrization and normalization                      *)
(*   greycoprops   - reduction of a GLCM to one scalar per offset          *)
(*   local_binary_pattern / compute_lbp / bit_rotate_right - LBP codes     *)
(*                                                                         *)
(* Numbers.  Counts are naturals (uint32 never wraps for the image sizes   *)
(* explored).  A float64 that the code obtains by one division n / s is    *)
(* kept as the exact pair [num |-> n, den |-> s]; den = 0 stands for the   *)
(* non-finite results (0/0 = NaN, n/0 = Inf).  Angles are multiples of     *)
(* pi/4, with sine and cosine given to four decimals.                      *)
(***************************************************************************)
EXTENDS Integers, Sequences, FiniteSets

VARIABLES
    \* ---- greycomatrix / greycoprops ----
    image,       \* the image argument, as a sequence of rows
    imageNdim,   \* image.ndim
    distances,   \* the distances argument (sequence)
    distNdim,    \* distances.ndim
    angles,      \* the angles argument (sequence of multiples of pi/4)
    angNdim,     \* angles.ndim
    levels,      \* the levels argument
    symmetric,   \* the symmetric flag
    normed,      \* the normed flag
    pc,          \* position inside the running call
    P,           \* the local P of greycomatrix: NotAllocated, counts or floats
    dtype,       \* P.dtype: "none", "uint32" or "float64"
    error,       \* the exception the call ended with, "none" otherwise
    prop,        \* the prop argument of greycoprops
    results,     \* the array greycoprops returns
    \* ---- local_binary_pattern ----
    method,      \* the method argument (as given, before lower())
    nPoints,     \* the P argument: number of neighbour points
    texture,     \* per pixel: the interpolated, centre-subtracted neighbours
    rotation_chain, \* the scratch array allocated once per call for 'ror'
    lpc,         \* per pixel: position inside compute_lbp
    signed,      \* per pixel: the thresholded texture
    lbp,         \* per pixel: the local lbp of compute_lbp
    idx,         \* per pixel: the loop index i of the 'ror' loop
    output,      \* per pixel: the value stored in the output array
    stage        \* position inside local_binary_pattern

glcmVars == <<image, imageNdim, distances, distNdim, angles, angNdim, levels,
              symmetric, normed, pc, P, dtype, error, prop, results>>
lbpVars == <<method, nPoints, texture, rotation_chain, lpc, signed, lbp, idx,
             output, stage>>
vars == <<glcmVars, lbpVars>>

(***************************************************************************)
(* Bounds of the explored inputs.                                          *)
(***************************************************************************)
MaxPixels == 4      \* images have at most this many pixels
MaxLevels == 2      \* levels is drawn from 1..MaxLevels (and LevelLimit + 1)
MaxDist == 2        \* distances are drawn from 0..MaxDist
MaxP == 4           \* LBP neighbour counts are drawn from 1..MaxP

LevelLimit == 256   \* assert levels <= 256
Uint8Range == 256   \* image.astype(np.uint8)

(***************************************************************************)
(* Generic helpers.                                                        *)
(***************************************************************************)
RECURSIVE SumSeq(_)
SumSeq(s) == IF s = <<>> THEN 0 ELSE s[1] + SumSeq(Tail(s))

RECURSIVE SumSet(_, _)
\* sum of f[x] over the finite set S
SumSet(f, S) ==
    IF S = {} THEN 0
    ELSE LET x == CHOOSE y \in S : TRUE IN f[x] + SumSet(f, S \ {x})

RECURSIVE Pow2(_)
Pow2(n) == IF n = 0 THEN 1 ELSE 2 * Pow2(n - 1)

RECURSIVE Gcd(_, _)
Gcd(a, b) == IF b = 0 THEN a ELSE Gcd(b, a % b)

Abs(x) == IF x < 0 THEN -x ELSE x

(***************************************************************************)
(* greycomatrix: arguments.                                                *)
(***************************************************************************)
Rows(img) == Len(img)
Cols(img) == Len(img[1])
Positions(img) == (1..Rows(img)) \X (1..Cols(img))
Pixels2D(img) == {img[p[1]][p[2]] : p \in Positions(img)}

\* image.min(), image.max()
ImageMin(img) == CHOOSE v \in Pixels2D(img) : \A w \in Pixels2D(img) : v <= w
ImageMax(img) == CHOOSE v \in Pixels2D(img) : \A w \in Pixels2D(img) : v >= w

\* image.astype(np.uint8)
AsUint8(img) == [r \in 1..Rows(img) |-> [c \in 1..Cols(img) |-> img[r][c] % Uint8Range]]

\* sin and cos of the angle k * pi/4, times 10000
SinE4(k) == CASE k = 0 -> 0 [] k = 1 -> 7071 [] k = 2 -> 10000 [] k = 3 -> 7071
CosE4(k) == CASE k = 0 -> 10000 [] k = 1 -> 7071 [] k = 2 -> 0 [] k = 3 -> -7071

\* round(x / 10000) to the nearest integer, halves away from zero
RoundE4(x) ==
    IF x >= 0 THEN (2 * x + 10000) \div 20000
    ELSE -((2 * (-x) + 10000) \div 20000)


\* Row and column displacement of the offset (distance d, angle k * pi/4).
\* The row displacement has the sign that the documented example of
\* greycomatrix requires (angle pi/2 pairs each pixel with the one below it).
OffsetRowNeg(d, k) == RoundE4(d * (-SinE4(k)))
OffsetRow(d, k) == RoundE4(d * SinE4(k))
OffsetCol(d, k) == RoundE4(d * CosE4(k))

\* assert levels <= 256; image.ndim == 2; image.min() >= 0;
\* image.max() < levels; distances.ndim == 1; angles.ndim == 1.
\* The line of the first assert that fails, 0 when all hold.
FirstFailedAssertNoMax ==
    IF levels > LevelLimit THEN 85
    ELSE IF imageNdim # 2 THEN 87
    ELSE IF ImageMin(image) < 0 THEN 88
    ELSE IF distNdim # 1 THEN 93
    ELSE IF angNdim # 1 THEN 94
    ELSE 0
FirstFailedAssert ==
    IF levels > LevelLimit THEN 85
    ELSE IF imageNdim # 2 THEN 87
    ELSE IF ImageMin(image) < 0 THEN 88
    ELSE IF ImageMax(image) >= levels THEN 89
    ELSE IF distNdim # 1 THEN 93
    ELSE IF angNdim # 1 THEN 94
    ELSE 0

(***************************************************************************)
(* greycomatrix: the histogram.  P[<<i, j, d, a>>] with grey levels i, j   *)
(* in 0..levels-1 and 1-based positions d, a in distances and angles.      *)
(***************************************************************************)
NotAllocated == <<>>

HistIndex(L, nd, na) == (0..(L - 1)) \X (0..(L - 1)) \X (1..nd) \X (1..na)

\* np.zeros((levels, levels, len(distances), len(angles)), dtype=np.uint32)
Zeros(L, nd, na) == [x \in HistIndex(L, nd, na) |-> 0]

InImage(img, r, c) == r >= 1 /\ r <= Rows(img) /\ c >= 1 /\ c <= Cols(img)

\* the n-th pixel position in row-major order
RowMajor(img, n) == <<((n - 1) \div Cols(img)) + 1, ((n - 1) % Cols(img)) + 1>>

\* one pixel of the scan: count the pair (image[p], image[p + displacement])
\* when the neighbour lies inside the image and both levels are in range
CountPair(H, img, L, r, c, dr, dc, d, a) ==
    IF InImage(img, r + dr, c + dc)
    THEN LET i == img[r][c]
             j == img[r + dr][c + dc]
         IN IF i >= 0 /\ i < L /\ j >= 0 /\ j < L
            THEN [H EXCEPT ![<<i, j, d, a>>] = @ + 1]
            ELSE H
    ELSE H

RECURSIVE ScanPixels(_, _, _, _, _, _, _, _)
ScanPixels(H, img, L, n, dr, dc, d, a) ==
    \* (testing H makes TLC evaluate it before the next pixel is scanned)
    IF H = NotAllocated \/ n > Rows(img) * Cols(img) THEN H
    ELSE LET p == RowMajor(img, n)
         IN ScanPixels(CountPair(H, img, L, p[1], p[2], dr, dc, d, a),
                       img, L, n + 1, dr, dc, d, a)

RECURSIVE ScanDistances(_, _, _, _, _, _, _)
ScanDistances(H, img, dists, angs, L, d, a) ==
    IF d > Len(dists) THEN H
    ELSE ScanDistances(
            ScanPixels(H, img, L, 1, OffsetRow(dists[d], angs[a]),
                       OffsetCol(dists[d], angs[a]), d, a),
            img, dists, angs, L, d + 1, a)

RECURSIVE ScanAngles(_, _, _, _, _, _)
ScanAngles(H, img, dists, angs, L, a) ==
    IF a > Len(angs) THEN H
    ELSE ScanAngles(ScanDistances(H, img, dists, angs, L, 1, a),
                    img, dists, angs, L, a + 1)

\* _glcm_loop(image, distances, angles, levels, P)
glcm_loop(img, dists, angs, L, H) == ScanAngles(H, img, dists, angs, L, 1)

\* np.transpose(P, (1, 0, 2, 3))
TransposeIdentity(H) == H
Transpose(H) == [x \in DOMAIN H |-> H[<<x[2], x[1], x[3], x[4]>>]]

\* P = P + Pt
SymmetrizedOverwrite(H) == Transpose(H)
Symmetrized(H) == LET Pt == Transpose(H) IN [x \in DOMAIN H |-> H[x] + Pt[x]]

\* float division n / s
NaN == [num |-> 0, den |-> 0]
Inf == [num |-> 1, den |-> 0]
FloatDiv(n, s) ==
    IF s = 0 THEN (IF n = 0 THEN NaN ELSE Inf) ELSE [num |-> n, den |-> s]

SliceIndex(L) == (0..(L - 1)) \X (0..(L - 1))

\* np.apply_over_axes(np.sum, P, axes=(0, 1)) on the counts
GlcmSums(H, L, nd, na) ==
    [o \in (1..nd) \X (1..na) |->
        SumSet([ij \in SliceIndex(L) |-> H[<<ij[1], ij[2], o[1], o[2]>>]],
               SliceIndex(L))]

\* glcm_sums[glcm_sums == 0] = 1
ZeroSumsKept(sums) == sums
ZeroSumsReplaced(sums) == [o \in DOMAIN sums |-> IF sums[o] = 0 THEN 1 ELSE sums[o]]

\* P = P.astype(np.float64); ...; P /= glcm_sums
Normalized(H, L, nd, na) ==
    LET glcm_sums == ZeroSumsReplaced(GlcmSums(H, L, nd, na))
    IN [x \in DOMAIN H |-> FloatDiv(H[x], glcm_sums[<<x[3], x[4]>>])]


(***************************************************************************)
(* greycoprops.  An entry of P is the fraction Num/Den: a count n is n/1,  *)
(* a normalized entry is n/s with s the divisor of its slice.              *)
(***************************************************************************)
Num(e, dt) == IF dt = "uint32" THEN e ELSE e.num
Den(e, dt) == IF dt = "uint32" THEN 1 ELSE e.den

\* the numerators of the slice (d, a), and its common denominator
SliceNum(H, dt, L, d, a) == [ij \in SliceIndex(L) |-> Num(H[<<ij[1], ij[2], d, a>>], dt)]
SliceDen(H, dt, d, a) == Den(H[<<0, 0, d, a>>], dt)

\* sum over the two level axes of n[i, j] * w[i, j]
Weighted(n, w, L) == SumSet([ij \in SliceIndex(L) |-> n[ij] * w[ij]], SliceIndex(L))

\* 'contrast': weights = (I - J) ** 2; sum(P * weights)
Contrast(H, dt, L, d, a) ==
    [num |-> Weighted(SliceNum(H, dt, L, d, a),
                      [ij \in SliceIndex(L) |-> (ij[1] - ij[2]) * (ij[1] - ij[2])], L),
     den |-> SliceDen(H, dt, d, a)]

\* 'dissimilarity': weights = np.abs(I - J); sum(P * weights)
Dissimilarity(H, dt, L, d, a) ==
    [num |-> Weighted(SliceNum(H, dt, L, d, a),
                      [ij \in SliceIndex(L) |-> Abs(ij[1] - ij[2])], L),
     den |-> SliceDen(H, dt, d, a)]

\* 'ASM': sum(P ** 2)
ASM(H, dt, L, d, a) ==
    LET n == SliceNum(H, dt, L, d, a)
        s == SliceDen(H, dt, d, a)
    IN [num |-> Weighted(n, n, L), den |-> s * s]

\* 'correlation'.  With n the numerators and s the denominator of the slice:
\*   sum(I * P) = Mi / s,  diff_i = (i * s - Mi) / s,
\*   std_i ** 2 = sum(P * diff_i ** 2) = vari / s ** 3,  cov = cov / s ** 3,
\* so that  cov / (std_i * std_j)  =  cov / sqrt(vari * varj).
\* std < 1e-15 is vari = 0: vari is an integer and s ** 3 is far below 1e30.
CorrelationParts(H, dt, L, d, a) ==
    LET n == SliceNum(H, dt, L, d, a)
        s == SliceDen(H, dt, d, a)
        Mi == Weighted(n, [ij \in SliceIndex(L) |-> ij[1]], L)
        Mj == Weighted(n, [ij \in SliceIndex(L) |-> ij[2]], L)
        di == [ij \in SliceIndex(L) |-> ij[1] * s - Mi]
        dj == [ij \in SliceIndex(L) |-> ij[2] * s - Mj]
    IN [vari |-> Weighted(n, [ij \in SliceIndex(L) |-> di[ij] * di[ij]], L),
        varj |-> Weighted(n, [ij \in SliceIndex(L) |-> dj[ij] * dj[ij]], L),
        cov  |-> Weighted(n, [ij \in SliceIndex(L) |-> di[ij] * dj[ij]], L)]

\* the value 1 that results[mask_0] = 1 stores
One == [cov |-> 1, vari |-> 1, varj |-> 1]

\* mask_0: std_i < 1e-15, or std_j < 1e-15;  otherwise cov / (std_i * std_j),
\* kept as the three integers it is made of
Correlation(H, dt, L, d, a) ==
    LET c == CorrelationParts(H, dt, L, d, a)
    IN IF c.vari = 0 \/ c.varj = 0 THEN One ELSE c

\* whether the float cov / sqrt(vari * varj) is 1:
\* cov > 0 and cov * cov = vari * varj, decided without forming the products
IsOne(c) ==
    /\ c.cov > 0
    /\ c.vari > 0
    /\ c.varj > 0
    /\ LET g1 == Gcd(c.cov, c.vari)
           g2 == Gcd(c.cov, c.varj)
       IN /\ c.cov \div g1 = c.varj \div g2
          /\ c.cov \div g2 = c.vari \div g1

Properties == {"contrast", "dissimilarity", "ASM", "correlation"}

\* the per-slice value of one property
PropertyOf(pr, H, dt, L, d, a) ==
    CASE pr = "contrast" -> Contrast(H, dt, L, d, a)
      [] pr = "dissimilarity" -> Dissimilarity(H, dt, L, d, a)
      [] pr = "ASM" -> ASM(H, dt, L, d, a)
      [] pr = "correlation" -> Correlation(H, dt, L, d, a)

(***************************************************************************)
(* Inputs of greycomatrix.                                                 *)
(***************************************************************************)
Shapes == {s \in (1..MaxPixels) \X (1..MaxPixels) : s[1] * s[2] <= MaxPixels}
Greys == 0..(MaxLevels - 1)
Images2D == UNION {[1..s[1] -> [1..s[2] -> Greys]] : s \in Shapes}
NegativeImages == {<<<<-1>>>>, <<<<0, -1>>>>, <<<<1>>, <<-1>>>>}
ExampleImage == <<<<0, 0, 1, 1>>, <<0, 0, 1, 1>>, <<0, 2, 2, 2>>, <<2, 2, 3, 3>>>>
ExampleLevels == 4
LevelChoices == (1..MaxLevels) \cup {LevelLimit + 1}
DistanceLists == {<<d>> : d \in 0..MaxDist} \cup {<<1, 2>>}
AngleLists == {<<k>> : k \in 0..3} \cup {<<0, 2>>}
PropTags == Properties \cup {"entropy"}

LbpIdle ==
    /\ method = "none"
    /\ nPoints = 0
    /\ texture = <<>>
    /\ rotation_chain = <<>>
    /\ lpc = <<>>
    /\ signed = <<>>
    /\ lbp = <<>>
    /\ idx = <<>>
    /\ output = <<>>
    /\ stage = "idle"

\* well-shaped arguments: value and level violations only
InitWellShaped ==
    /\ image \in Images2D \cup NegativeImages
    /\ levels \in LevelChoices
    /\ distances \in DistanceLists
    /\ angles \in AngleLists
    /\ imageNdim = 2 /\ distNdim = 1 /\ angNdim = 1
    /\ symmetric \in BOOLEAN
    /\ normed \in BOOLEAN

\* the documented example
InitExample ==
    /\ image = ExampleImage
    /\ levels = ExampleLevels
    /\ distances \in {<<1>>, <<1, 2>>}
    /\ angles = <<0, 2>>
    /\ imageNdim = 2 /\ distNdim = 1 /\ angNdim = 1
    /\ symmetric \in BOOLEAN
    /\ normed \in BOOLEAN

\* arguments of the wrong dimensionality
InitMisShaped ==
    /\ image \in {<<<<0>>>>, <<<<0, 1>>>>}
    /\ levels \in LevelChoices
    /\ distances = <<1>>
    /\ angles = <<0>>
    /\ imageNdim \in {1, 2, 3} /\ distNdim \in {1, 2} /\ angNdim \in {1, 2}
    /\ ~(imageNdim = 2 /\ distNdim = 1 /\ angNdim = 1)
    /\ symmetric = FALSE
    /\ normed = FALSE

Init ==
    /\ InitWellShaped \/ InitExample \/ InitMisShaped
    /\ pc = "start"
    /\ P = NotAllocated
    /\ dtype = "none"
    /\ error = "none"
    /\ prop = "none"
    /\ results = <<>>
    /\ LbpIdle

(***************************************************************************)
(* greycomatrix, step by step.                                             *)
(***************************************************************************)
\* lines 85-94: the asserts, and the cast of the image
Validate ==
    /\ pc = "start"
    /\ IF FirstFailedAssert # 0
       THEN /\ pc' = "failed"
            /\ error' = "AssertionError"
            /\ UNCHANGED image
       ELSE /\ pc' = "alloc"
            /\ image' = AsUint8(image)
            /\ UNCHANGED error
    /\ UNCHANGED <<imageNdim, distances, distNdim, angles, angNdim, levels,
                   symmetric, normed, P, dtype, prop, results, lbpVars>>

\* lines 96-97
Allocate ==
    /\ pc = "alloc"
    /\ P' = Zeros(levels, Len(distances), Len(angles))
    /\ dtype' = "uint32"
    /\ pc' = "loop"
    /\ UNCHANGED <<image, imageNdim, distances, distNdim, angles, angNdim, levels,
                   symmetric, normed, error, prop, results, lbpVars>>

\* line 100
CountCooccurrences ==
    /\ pc = "loop"
    /\ P' = glcm_loop(image, distances, angles, levels, P)
    /\ pc' = "symmetrize"
    /\ UNCHANGED <<image, imageNdim, distances, distNdim, angles, angNdim, levels,
                   symmetric, normed, dtype, error, prop, results, lbpVars>>

\* lines 103-105
Symmetrize ==
    /\ pc = "symmetrize"
    /\ P' = IF symmetric THEN Symmetrized(P) ELSE P
    /\ pc' = "normalize"
    /\ UNCHANGED <<image, imageNdim, distances, distNdim, angles, angNdim, levels,
                   symmetric, normed, dtype, error, prop, results, lbpVars>>

\* lines 108-114
NormalizeAndReturn ==
    /\ pc = "normalize"
    /\ IF normed
       THEN /\ P' = Normalized(P, levels, Len(distances), Len(angles))
            /\ dtype' = "float64"
       ELSE UNCHANGED <<P, dtype>>
    /\ pc' = "returned"
    /\ UNCHANGED <<image, imageNdim, distances, distNdim, angles, angNdim, levels,
                   symmetric, normed, error, prop, results, lbpVars>>

\* greycoprops(P, prop) on the array greycomatrix returned
greycoprops ==
    /\ pc = "returned"
    /\ \E pr \in PropTags :
        /\ prop' = pr
        /\ IF pr \in Properties
           THEN /\ results' = [o \in (1..Len(distances)) \X (1..Len(angles)) |->
                                   PropertyOf(pr, P, dtype, levels, o[1], o[2])]
                /\ pc' = "reduced"
                /\ UNCHANGED error
           ELSE /\ error' = "ValueError"
                /\ pc' = "reduceFailed"
                /\ UNCHANGED results
    /\ UNCHANGED <<image, imageNdim, distances, distNdim, angles, angNdim, levels,
                   symmetric, normed, P, dtype, lbpVars>>

Next ==
    \/ Validate
    \/ Allocate
    \/ CountCooccurrences
    \/ Symmetrize
    \/ NormalizeAndReturn
    \/ greycoprops

Spec == Init /\ [][Next]_vars


(***************************************************************************)
(* Properties of greycomatrix and greycoprops.                             *)
(***************************************************************************)
\* greycomatrix has just returned its array
Returned == pc = "returned"

Offsets == (1..Len(distances)) \X (1..Len(angles))

\* the histogram as _glcm_loop leaves it, before any post-processing
Accumulated ==
    glcm_loop(image, distances, angles, levels,
             Zeros(levels, Len(distances), Len(angles)))

\* sum of the counts of slice o of a uint32 histogram
SliceSum(H, o) ==
    SumSet([ij \in SliceIndex(levels) |-> H[<<ij[1], ij[2], o[1], o[2]>>]],
           SliceIndex(levels))

\* number of positions p with p + (dr, dc) inside the image
InBoundCount(img, dr, dc) ==
    Cardinality({p \in Positions(img) : InImage(img, p[1] + dr, p[2] + dc)})

\* number of positions p with image[p] = i and image[p + (dr, dc)] = j
PairCount(img, i, j, dr, dc) ==
    Cardinality({p \in Positions(img) :
                    /\ InImage(img, p[1] + dr, p[2] + dc)
                    /\ img[p[1]][p[2]] = i
                    /\ img[p[1] + dr][p[2] + dc] = j})

PairsOf(o) == InBoundCount(image, OffsetRow(distances[o[1]], angles[o[2]]),
                           OffsetCol(distances[o[1]], angles[o[2]]))

\* C1 as stated: without normalization, and whatever the symmetric flag, every
\* slice of the returned GLCM sums to the number of positions whose displaced
\* neighbour is inside the image, which is at most rows * cols.
C1_SliceSumIsPairCount ==
    (Returned /\ ~normed) =>
        \A o \in Offsets :
            /\ SliceSum(P, o) = PairsOf(o)
            /\ SliceSum(P, o) <= Rows(image) * Cols(image)

\* C1 amended: without normalization a slice sums to the number of in-bounds
\* positions when symmetric is off and to twice that number when symmetric is
\* on; the number of in-bounds positions is at most rows * cols.
C1_SliceSumCountsPairsOnceOrTwice ==
    (Returned /\ ~normed) =>
        \A o \in Offsets :
            /\ SliceSum(P, o) = (IF symmetric THEN 2 ELSE 1) * PairsOf(o)
            /\ PairsOf(o) <= Rows(image) * Cols(image)

C1_Witness ==
    /\ Returned /\ ~normed /\ symmetric
    /\ \E o \in Offsets :
        /\ PairsOf(o) > 0
        /\ PairsOf(o) < Rows(image) * Cols(image)
        /\ SliceSum(P, o) > Rows(image) * Cols(image)

\* C2: with symmetric on, the returned GLCM equals its transpose over the two
\* level axes, normalized or not; without normalization each entry is
\* H[i, j, d, a] + H[j, i, d, a] for the accumulated histogram H.
C2_SymmetricGlcm ==
    (Returned /\ symmetric) =>
        /\ \A x \in DOMAIN P : P[x] = P[<<x[2], x[1], x[3], x[4]>>]
        /\ ~normed =>
            \A x \in DOMAIN P :
                P[x] = Accumulated[x] + Accumulated[<<x[2], x[1], x[3], x[4]>>]

C2_Witness ==
    /\ Returned /\ symmetric /\ normed
    /\ \E x \in DOMAIN P :
        /\ Accumulated[x] # Accumulated[<<x[2], x[1], x[3], x[4]>>]
        /\ P[x].num > 0

\* the counts that normalization divides
BeforeNormalization == IF symmetric THEN Symmetrized(Accumulated) ELSE Accumulated

\* C3: with normed on, every slice of the returned GLCM either sums to 1, each
\* entry being its count over the slice total, or had total 0 and is all zero
\* (divisor 1); no entry is NaN or infinite; for either symmetric flag.
C3_NormalizedSlices ==
    (Returned /\ normed) =>
        /\ dtype = "float64"
        /\ \A x \in DOMAIN P : P[x].den # 0
        /\ \A o \in Offsets :
            LET total == SliceSum(BeforeNormalization, o)
                slice == {x \in DOMAIN P : x[3] = o[1] /\ x[4] = o[2]}
            IN IF total = 0
               THEN \A x \in slice : P[x] = [num |-> 0, den |-> 1]
               ELSE /\ \A x \in slice :
                         P[x] = [num |-> BeforeNormalization[x], den |-> total]
                    /\ SumSet([x \in slice |-> P[x].num], slice) = total

C3_Witness ==
    /\ Returned /\ normed /\ symmetric
    /\ \E o \in Offsets : SliceSum(BeforeNormalization, o) = 0
    /\ \E o \in Offsets : SliceSum(BeforeNormalization, o) > 1

\* the documented call: greycomatrix(image, [1], [0, np.pi/2], levels=4)
ExampleCall ==
    /\ image = ExampleImage
    /\ levels = ExampleLevels
    /\ distances = <<1>>
    /\ angles = <<0, 2>>
    /\ ~symmetric /\ ~normed

ExampleRight ==
    <<<<2, 2, 1, 0>>, <<0, 2, 0, 0>>, <<0, 0, 3, 1>>, <<0, 0, 0, 1>>>>
ExampleSecond ==
    <<<<3, 0, 2, 0>>, <<0, 2, 2, 0>>, <<0, 0, 1, 2>>, <<0, 0, 0, 0>>>>

ExampleMatrices ==
    \A i \in 0..3 : \A j \in 0..3 :
        /\ P[<<i, j, 1, 1>>] = ExampleRight[i + 1][j + 1]
        /\ P[<<i, j, 1, 2>>] = ExampleSecond[i + 1][j + 1]

PreconditionViolated ==
    \/ levels > LevelLimit
    \/ \E v \in Pixels2D(image) : v < 0 \/ v > levels - 1
    \/ imageNdim # 2
    \/ distNdim # 1
    \/ angNdim # 1

\* C5: a call that violates a precondition fails with the precondition error
\* (AssertionError), with no histogram allocated, nothing accumulated and
\* nothing returned.
C5_ViolationFailsBeforeAllocation ==
    (PreconditionViolated /\ pc # "start") =>
        /\ pc = "failed"
        /\ error = "AssertionError"
        /\ P = NotAllocated
        /\ dtype = "none"
        /\ results = <<>>

C5_Witness ==
    /\ pc = "failed"
    /\ levels <= LevelLimit /\ imageNdim = 2 /\ distNdim = 1 /\ angNdim = 1
    /\ ImageMin(image) >= 0
    /\ ImageMax(image) >= levels

\* the mass of slice o lies in a single row level or in a single column level
SingleLevel(o) ==
    LET n == SliceNum(P, dtype, levels, o[1], o[2])
    IN \/ \E r \in 0..(levels - 1) :
            \A ij \in SliceIndex(levels) : ij[1] # r => n[ij] = 0
       \/ \E c \in 0..(levels - 1) :
            \A ij \in SliceIndex(levels) : ij[2] # c => n[ij] = 0

\* C9: greycoprops 'correlation' is exactly 1 on every slice whose mass lies
\* in a single row level or a single column level, for counts and for
\* normalized fractions alike.
C9_SingleLevelCorrelationIsOne ==
    (pc = "reduced" /\ prop = "correlation") =>
        \A o \in Offsets :
            SingleLevel(o) => (results[o] = One \/ IsOne(results[o]))

(***************************************************************************)
(* local_binary_pattern.  A call evaluates compute_lbp once per output     *)
(* pixel; texture[k] is what map_coordinates returns for pixel k (the P    *)
(* interpolated neighbours minus the centre).  Bit k of the code belongs   *)
(* to sample k - 1 of the code's 0-based numbering.                        *)
(***************************************************************************)
PixelIds == 1..2
TexVals == {-1, 0, 1}
LbpMethods == {"default", "ror", "uniform", "var"}
MethodArgs == LbpMethods \cup {"ROR", "nri_uniform"}

\* method.lower()
Lower(m) == IF m = "ROR" THEN "ror" ELSE m

\* bit_rotate_right: (value >> 1) | ((value & 1) << (length - 1))
BitShiftRight(value, length) == value \div 2
bit_rotate_right(value, length) == (value \div 2) + (value % 2) * Pow2(length - 1)

\* signed = texture.copy(); signed[signed >= 0] = 1; signed[signed < 0] = 0
Threshold(tex) ==
    LET ones == [k \in DOMAIN tex |-> IF tex[k] >= 0 THEN 1 ELSE tex[k]]
    IN [k \in DOMAIN tex |-> IF ones[k] < 0 THEN 0 ELSE ones[k]]

\* np.sum(np.abs(np.diff(signed)))
Changes(sgn) ==
    SumSeq([k \in 1..(Len(sgn) - 1) |-> Abs(sgn[k + 1] - sgn[k])])

\* changes <= 2: np.sum(signed), otherwise P + 1
UniformCodeStrict(sgn, n) == IF Changes(sgn) < 2 THEN SumSeq(sgn) ELSE n + 1
UniformCode(sgn, n) == IF Changes(sgn) <= 2 THEN SumSeq(sgn) ELSE n + 1

\* np.var(texture) = VarNum / n ** 2
VarNum(tex) ==
    Len(tex) * SumSeq([k \in DOMAIN tex |-> tex[k] * tex[k]])
        - SumSeq(tex) * SumSeq(tex)

\* lbp /= np.var(texture)
VarCode(code, tex) == FloatDiv(code * Len(tex) * Len(tex), VarNum(tex))

\* np.sum(signed * weights), weights = 2 ** np.arange(P)
DefaultCode(sgn) == SumSeq([k \in DOMAIN sgn |-> sgn[k] * Pow2(k - 1)])

\* np.min(rotation_chain)
MinOf(chain) ==
    LET vals == {chain[k] : k \in DOMAIN chain}
    IN CHOOSE v \in vals : \A w \in vals : v <= w

GlcmIdle ==
    /\ image = <<>>
    /\ imageNdim = 0
    /\ distances = <<>>
    /\ distNdim = 0
    /\ angles = <<>>
    /\ angNdim = 0
    /\ levels = 0
    /\ symmetric = FALSE
    /\ normed = FALSE
    /\ pc = "idle"
    /\ P = NotAllocated
    /\ dtype = "none"
    /\ error = "none"
    /\ prop = "none"
    /\ results = <<>>

InitLbp ==
    /\ GlcmIdle
    /\ method \in MethodArgs
    /\ nPoints \in 1..MaxP
    /\ texture \in [PixelIds -> [1..nPoints -> TexVals]]
    /\ rotation_chain = <<>>
    /\ lpc = [k \in PixelIds |-> "idle"]
    /\ signed = [k \in PixelIds |-> <<>>]
    /\ lbp = [k \in PixelIds |-> 0]
    /\ idx = [k \in PixelIds |-> 0]
    /\ output = <<>>
    /\ stage = "start"

\* lines 281-341 up to the first call of compute_lbp
LbpSetup ==
    /\ stage = "start"
    /\ method' = Lower(method)
    /\ rotation_chain' = IF Lower(method) = "ror"
                         THEN [k \in 1..nPoints |-> 0]
                         ELSE rotation_chain
    /\ output' = [k \in PixelIds |-> 0]
    /\ stage' = "filtering"
    /\ UNCHANGED <<glcmVars, nPoints, texture, lpc, signed, lbp, idx>>

\* lines 305-307
ThresholdStep(k) ==
    /\ stage = "filtering"
    /\ lpc[k] = "idle"
    /\ signed' = [signed EXCEPT ![k] = Threshold(texture[k])]
    /\ lpc' = [lpc EXCEPT ![k] = "encode"]
    /\ UNCHANGED <<glcmVars, method, nPoints, texture, rotation_chain, lbp, idx,
                   output, stage>>

\* lines 309-323, and the return for every method but 'ror'
EncodeStep(k) ==
    /\ stage = "filtering"
    /\ lpc[k] = "encode"
    /\ IF method \in {"uniform", "var"}
       THEN LET code == UniformCode(signed[k], nPoints)
                value == IF method = "var" THEN VarCode(code, texture[k]) ELSE code
            IN /\ lbp' = [lbp EXCEPT ![k] = value]
               /\ output' = [output EXCEPT ![k] = value]
               /\ lpc' = [lpc EXCEPT ![k] = "done"]
       ELSE /\ lbp' = [lbp EXCEPT ![k] = DefaultCode(signed[k])]
            /\ IF method = "ror"
               THEN /\ lpc' = [lpc EXCEPT ![k] = "chain"]
                    /\ UNCHANGED output
               ELSE /\ output' = [output EXCEPT ![k] = DefaultCode(signed[k])]
                    /\ lpc' = [lpc EXCEPT ![k] = "done"]
    /\ UNCHANGED <<glcmVars, method, nPoints, texture, rotation_chain, signed, idx,
                   stage>>

\* line 327: rotation_chain[0] = lbp
ChainStartStep(k) ==
    /\ stage = "filtering"
    /\ lpc[k] = "chain"
    /\ rotation_chain' = [rotation_chain EXCEPT ![1] = lbp[k]]
    /\ idx' = [idx EXCEPT ![k] = 1]
    /\ lpc' = [lpc EXCEPT ![k] = "rotate"]
    /\ UNCHANGED <<glcmVars, method, nPoints, texture, signed, lbp, output, stage>>

\* lines 328-330: one pass of the loop over i in xrange(1, P)
\* (rotation_chain[i] of the code is rotation_chain[i + 1] here)
RotateStep(k) ==
    /\ stage = "filtering"
    /\ lpc[k] = "rotate"
    /\ IF idx[k] < nPoints
       THEN /\ rotation_chain' =
                  [rotation_chain EXCEPT ![idx[k] + 1] =
                       bit_rotate_right(rotation_chain[idx[k]], nPoints)]
            /\ idx' = [idx EXCEPT ![k] = @ + 1]
            /\ UNCHANGED lpc
       ELSE /\ lpc' = [lpc EXCEPT ![k] = "min"]
            /\ UNCHANGED <<rotation_chain, idx>>
    /\ UNCHANGED <<glcmVars, method, nPoints, texture, signed, lbp, output, stage>>

\* lines 331-333: lbp = np.min(rotation_chain); return lbp
MinStep(k) ==
    /\ stage = "filtering"
    /\ lpc[k] = "min"
    /\ lbp' = [lbp EXCEPT ![k] = MinOf(rotation_chain)]
    /\ output' = [output EXCEPT ![k] = MinOf(rotation_chain)]
    /\ lpc' = [lpc EXCEPT ![k] = "done"]
    /\ UNCHANGED <<glcmVars, method, nPoints, texture, rotation_chain, signed, idx,
                   stage>>

\* line 343
LbpReturn ==
    /\ stage = "filtering"
    /\ \A k \in PixelIds : lpc[k] = "done"
    /\ stage' = "returned"
    /\ UNCHANGED <<glcmVars, method, nPoints, texture, rotation_chain, lpc, signed,
                   lbp, idx, output>>

\* generic_filter calls compute_lbp for one pixel after the other
Turn(k) == \A j \in PixelIds : j < k => lpc[j] = "done"

NextLbp ==
    \/ LbpSetup
    \/ \E k \in PixelIds : Turn(k) /\ ThresholdStep(k)
    \/ \E k \in PixelIds : Turn(k) /\ EncodeStep(k)
    \/ \E k \in PixelIds : Turn(k) /\ ChainStartStep(k)
    \/ \E k \in PixelIds : Turn(k) /\ RotateStep(k)
    \/ \E k \in PixelIds : Turn(k) /\ MinStep(k)
    \/ LbpReturn

SpecLbp == InitLbp /\ [][NextLbp]_vars

\* the pixel evaluations of one call run concurrently: their steps interleave
NextLbpParallel ==
    \/ LbpSetup
    \/ \E k \in PixelIds : ThresholdStep(k)
    \/ \E k \in PixelIds : EncodeStep(k)
    \/ \E k \in PixelIds : ChainStartStep(k)
    \/ \E k \in PixelIds : RotateStep(k)
    \/ \E k \in PixelIds : MinStep(k)
    \/ LbpReturn

SpecLbpParallel == InitLbp /\ [][NextLbpParallel]_vars


(***************************************************************************)
(* Properties of local_binary_pattern.                                     *)
(***************************************************************************)
\* the thresholded samples: bit = 1 when the neighbour is >= the centre
Bits(tex) == [k \in DOMAIN tex |-> IF tex[k] >= 0 THEN 1 ELSE 0]

\* the P-bit default code of a bit sequence
CodeOf(bits) == SumSeq([k \in DOMAIN bits |-> bits[k] * Pow2(k - 1)])

\* the P-bit value c rotated cyclically to the right by r positions
RotatedRight(c, r, n) == (c \div Pow2(r)) + (c % Pow2(r)) * Pow2(n - r)

\* the least of the P cyclic rotations of c
MinRotation(c, n) ==
    LET rots == {RotatedRight(c, r, n) : r \in 0..(n - 1)}
    IN CHOOSE v \in rots : \A w \in rots : v <= w

\* number of positions, last to first included, where the bit changes
CircularTransitions(bits) ==
    Cardinality({k \in DOMAIN bits : bits[k] # bits[(k % Len(bits)) + 1]})

\* number of adjacent positions, without wrapping, where the bit changes
LinearTransitions(bits) ==
    Cardinality({k \in 1..(Len(bits) - 1) : bits[k] # bits[k + 1]})

PopCount(bits) == Cardinality({k \in DOMAIN bits : bits[k] = 1})

Done(k) == stage \in {"filtering", "returned"} /\ lpc[k] = "done"

\* C6: a method tag outside {default, ror, uniform, var} makes the call fail
\* with an error before any pixel is encoded; no code grid is produced.
C6_UnknownMethodRejected ==
    (Lower(method) \notin LbpMethods /\ stage # "start") =>
        /\ error # "none"
        /\ \A k \in PixelIds : lpc[k] = "idle"
        /\ stage # "returned"

\* C7: under 'ror' the value of a pixel is the least of the P cyclic right
\* rotations of its default code, so two pixels whose codes are rotations of
\* one another get the same value.
C7_RorIsMinimumRotation ==
    (method = "ror") =>
        /\ \A k \in PixelIds :
            Done(k) => output[k] = MinRotation(CodeOf(Bits(texture[k])), nPoints)
        /\ \A k \in PixelIds : \A j \in PixelIds :
            (/\ Done(k) /\ Done(j)
             /\ \E r \in 0..(nPoints - 1) :
                   CodeOf(Bits(texture[j])) =
                       RotatedRight(CodeOf(Bits(texture[k])), r, nPoints))
            => output[k] = output[j]

C7_Witness ==
    /\ method = "ror" /\ stage = "returned" /\ nPoints >= 3
    /\ CodeOf(Bits(texture[1])) # CodeOf(Bits(texture[2]))
    /\ \E r \in 1..(nPoints - 1) :
          CodeOf(Bits(texture[2])) = RotatedRight(CodeOf(Bits(texture[1])), r, nPoints)
    /\ output[1] < CodeOf(Bits(texture[1]))
    /\ output[1] < CodeOf(Bits(texture[2]))

\* C8: under 'uniform', a bit sequence with exactly two transitions around
\* the circle is coded by its number of set bits, and one with four
\* transitions around the circle by P + 1, wherever the sequence starts.
C8_UniformByCircularTransitions ==
    (method = "uniform") =>
        \A k \in PixelIds :
            Done(k) =>
                /\ CircularTransitions(Bits(texture[k])) = 2
                      => output[k] = PopCount(Bits(texture[k]))
                /\ CircularTransitions(Bits(texture[k])) = 4
                      => output[k] = nPoints + 1

C8_Witness ==
    /\ method = "uniform" /\ stage = "returned"
    /\ CircularTransitions(Bits(texture[1])) = 4
    /\ LinearTransitions(Bits(texture[1])) = 3
    /\ CircularTransitions(Bits(texture[2])) = 2
    /\ LinearTransitions(Bits(texture[2])) = 2

\* the code of one pixel, from its own neighbours alone
OwnCode(m, tex) ==
    LET bits == Bits(tex)
        base == IF LinearTransitions(bits) <= 2 THEN PopCount(bits) ELSE Len(tex) + 1
    IN CASE m = "default" -> CodeOf(bits)
         [] m = "ror" -> MinRotation(CodeOf(bits), Len(tex))
         [] m = "uniform" -> base
         [] m = "var" -> FloatDiv(base * Len(tex) * Len(tex), VarNum(tex))

====
